---- MODULE Spec2Model ----
\* Vote API worker (src/unnamed/part_001): handleVote, getVoteCounts,
\* getBatchVoteCounts, getRankings, getStats over one KV namespace (env.VOTES).
\* Strings are sequences of one-character strings, so that keys are built,
\* split, trimmed and prefix-matched the way the worker does it.
EXTENDS Integers, Sequences, FiniteSets, TLC

\* ------------------------------------------------------------------ bounds
MaxProcs == 2         \* requests in flight at once (Spec, SpecBatch)
MaxRequests == 2      \* requests started in one behaviour of Spec
SeqRequests == 3      \* requests answered in one behaviour of SpecSeq
RateRequests == 2     \* requests answered in one behaviour of SpecRate
RankRequests == 4     \* requests answered in one behaviour of SpecRank
BatchRequests == 2    \* requests started in one behaviour of SpecBatch
MaxTicks == 1         \* clock advances in one behaviour
Headroom == 1         \* InitPrior: a token has 0 or RateLimit-Headroom..RateLimit votes of the day behind it
MaxParamLen == 4      \* characters of the ids parameter of a batch request
PctMaxLikes == 24     \* SpecPct: largest total of likes
PctMaxDislikes == 18  \* SpecPct: largest total of dislikes
CacheRequests == 3    \* requests started in one behaviour of SpecCache
ClientRequests == 2   \* requests started in one behaviour of SpecClient
MaxClientIds == 2     \* ids handed to the client's batch read
CountRequests == 3    \* requests started in one behaviour of SpecCount
FrameRequests == 2    \* requests started in one behaviour of SpecFrame
RaceRequests == 2     \* requests started in one behaviour of SpecRace
MaxCacheTicks == 2    \* clock advances in one behaviour of SpecCache
PerItemRequests == 3  \* requests started in one behaviour of SpecPerItem
MixRequests == 2      \* requests started in one behaviour of SpecMix
FailRequests == 2     \* requests started in one behaviour of SpecFail
MarkRequests == 2     \* calls of voteForItem in one behaviour of SpecMark
KeyRequests == 3      \* requests answered in one behaviour of SpecKeys
PerItemParamLen == 3  \* characters of the ids parameter in SpecPerItem

\* -------------------------------------------------------- program constants
RateLimit == 50
VoteTtl == 2592000    \* 60 * 60 * 24 * 30
RateTtl == 86400      \* 60 * 60 * 24
MetaTtl == 2592000    \* 60 * 60 * 24 * 30
CacheTtl == 60
MaxBatchIds == 200
DaySeconds == 86400   \* one UTC calendar day, the unit of toISOString().split('T')[0]
StartTime == 43200    \* the clock at Init: 12:00:00 UTC of day 0
NoTtl == 0            \* exp of a key put without expirationTtl

\* ----------------------------------------------------------------- strings
Digits == <<"0", "1", "2", "3", "4", "5", "6", "7", "8", "9">>

RECURSIVE DecStr(_)
\* String(n) for an integer n >= 0
DecStr(n) == IF n < 10 THEN <<Digits[n + 1]>>
             ELSE DecStr(n \div 10) \o <<Digits[(n % 10) + 1]>>

IsDigit(c) == \E d \in 1..10 : Digits[d] = c
DigitVal(c) == (CHOOSE d \in 1..10 : Digits[d] = c) - 1

NaN == -1             \* parseInt of a string with no leading digit

RECURSIVE ParseDigits(_, _)
ParseDigits(s, acc) == IF s = <<>> \/ ~IsDigit(Head(s)) THEN acc
                       ELSE ParseDigits(Tail(s), acc * 10 + DigitVal(Head(s)))

\* parseInt(s) for the strings the worker stores (no sign, no leading blanks)
ParseInt(s) == IF s = <<>> \/ ~IsDigit(Head(s)) THEN NaN ELSE ParseDigits(s, 0)

LIKE == <<"l", "i", "k", "e">>
DISLIKE == <<"d", "i", "s", "l", "i", "k", "e">>
COLON == <<":">>
VOTE_PREFIX == <<"v", "o", "t", "e", ":">>
RATE_PREFIX == <<"r", "a", "t", "e", ":">>
META_PREFIX == <<"m", "e", "t", "a", ":">>
CACHE_PREFIX == <<"c", "a", "c", "h", "e", ":", "v", "o", "t", "e", "s", ":">>
LIKE_PREFIX == <<"l", "i", "k", "e", ":">>

VoteKey(token, item) == VOTE_PREFIX \o token \o COLON \o item
CountKey(vtype, item) == vtype \o COLON \o item
RateKey(token, today) == RATE_PREFIX \o token \o COLON \o today
CacheKey(item) == CACHE_PREFIX \o item
\* Date.now() is milliseconds; the clock of the model is whole seconds
MillisStr(t) == DecStr(t) \o <<"0", "0", "0">>
MetaKey(item, t) == META_PREFIX \o item \o COLON \o MillisStr(t)

\* new Date().toISOString().split('T')[0]: the UTC calendar date of the clock,
\* written as the number of the day since the epoch
DayOf(t) == t \div DaySeconds
Today(t) == DecStr(DayOf(t))

\* ---------------------------------------------------------------- KV store
\* env.VOTES.get(key): null for a missing or expired key
Get(store, k, t) ==
  IF k \in DOMAIN store /\ (store[k].exp = NoTtl \/ t < store[k].exp)
  THEN [found |-> TRUE, val |-> store[k].val]
  ELSE [found |-> FALSE, val |-> <<>>]

\* env.VOTES.put(key, value, {expirationTtl: ttl}); ttl = NoTtl: no expiry
Put(store, k, v, ttl, t) ==
  LET e == [val |-> v, exp |-> IF ttl = NoTtl THEN NoTtl ELSE t + ttl]
  IN [x \in (DOMAIN store) \cup {k} |-> IF x = k THEN e ELSE store[x]]

\* the store drops every key whose expiration has passed
Purge(store, t) ==
  LET live == {k \in DOMAIN store : store[k].exp = NoTtl \/ t < store[k].exp}
  IN [k \in live |-> store[k]]

\* JS truthiness of a string read from the store: null and '' are falsy
Truthy(g) == g.found /\ g.val # <<>>
\* parseInt((await get(k)) || '0')
ReadCount(store, k, t) ==
  LET g == Get(store, k, t) IN ParseInt(IF Truthy(g) THEN g.val ELSE <<"0">>)

\* --------------------------------------------------------------- handleVote
\* A request is a record; pc names the await it is about to execute.
VoteTypes == {LIKE, DISLIKE}

Respond(r, status, body) == [r EXCEPT !.pc = "done", !.status = status, !.body = body]

NewVote(item_id, token, vote_type, date) ==
  [kind |-> "vote", pc |-> "validate", item_id |-> item_id, token |-> token,
   vote_type |-> vote_type, date |-> date, today |-> <<>>, voteCount |-> 0,
   currentCount |-> 0, likes |-> 0, status |-> 0, body |-> [error |-> "none"]]

\* mutant: the vote type is not checked against the two vote types
VoteValidate_NoTypeCheck(store, t, r) ==
  [kv |-> store,
   r |-> IF r.item_id = <<>> \/ r.token = <<>> \/ r.vote_type = <<>>
         THEN Respond(r, 400, [error |-> "Missing required fields"])
         ELSE [r EXCEPT !.pc = "getVote"]]

\* lines 80-89: required fields, then the vote type
VoteValidate(store, t, r) ==
  [kv |-> store,
   r |-> IF r.item_id = <<>> \/ r.token = <<>> \/ r.vote_type = <<>>
         THEN Respond(r, 400, [error |-> "Missing required fields"])
         ELSE IF r.vote_type \notin VoteTypes
         THEN Respond(r, 400, [error |-> "Invalid vote_type"])
         ELSE [r EXCEPT !.pc = "getVote"]]

\* mutant: the duplicate check compares the stored vote with the new one
VoteCheckExisting_SameTypeOnly(store, t, r) ==
  LET existingVote == Get(store, VoteKey(r.token, r.item_id), t)
  IN [kv |-> store,
      r |-> IF Truthy(existingVote) /\ existingVote.val = r.vote_type
            THEN Respond(r, 409, [error |-> "Already voted"])
            ELSE [r EXCEPT !.pc = "getRate"]]

\* mutant: the rate limit is checked before the duplicate check
VoteCheckExisting_RateFirst(store, t, r) ==
  LET existingVote == Get(store, VoteKey(r.token, r.item_id), t)
      today == Today(t)
      voteCount == ReadCount(store, RateKey(r.token, today), t)
  IN [kv |-> store,
      r |-> IF voteCount >= RateLimit
            THEN Respond([r EXCEPT !.today = today, !.voteCount = voteCount],
                         429, [error |-> "Rate limit exceeded"])
            ELSE IF Truthy(existingVote)
            THEN Respond(r, 409, [error |-> "Already voted"])
            ELSE [r EXCEPT !.pc = "getRate"]]

\* lines 92-97: the duplicate check
VoteCheckExisting(store, t, r) ==
  LET existingVote == Get(store, VoteKey(r.token, r.item_id), t)
  IN [kv |-> store,
      r |-> IF Truthy(existingVote)
            THEN Respond(r, 409, [error |-> "Already voted"])
            ELSE [r EXCEPT !.pc = "getRate"]]

\* mutant: the limit is compared with > instead of >=
VoteCheckRate_OffByOne(store, t, r) ==
  LET today == Today(t)
      voteCount == ReadCount(store, RateKey(r.token, today), t)
  IN [kv |-> store,
      r |-> IF voteCount > RateLimit
            THEN Respond([r EXCEPT !.today = today, !.voteCount = voteCount],
                         429, [error |-> "Rate limit exceeded"])
            ELSE [r EXCEPT !.pc = "putVote", !.today = today, !.voteCount = voteCount]]

\* mutant: the vote record is written before the limit is checked
VoteCheckRate_RecordsFirst(store, t, r) ==
  LET today == Today(t)
      voteCount == ReadCount(store, RateKey(r.token, today), t)
  IN [kv |-> IF voteCount >= RateLimit
             THEN Put(store, VoteKey(r.token, r.item_id), r.vote_type, VoteTtl, t)
             ELSE store,
      r |-> IF voteCount >= RateLimit
            THEN Respond([r EXCEPT !.today = today, !.voteCount = voteCount],
                         429, [error |-> "Rate limit exceeded"])
            ELSE [r EXCEPT !.pc = "putVote", !.today = today, !.voteCount = voteCount]]

\* lines 100-106: today's rate counter
VoteCheckRate(store, t, r) ==
  LET today == Today(t)
      voteCount == ReadCount(store, RateKey(r.token, today), t)
  IN [kv |-> store,
      r |-> IF voteCount >= RateLimit
            THEN Respond([r EXCEPT !.today = today, !.voteCount = voteCount],
                         429, [error |-> "Rate limit exceeded"])
            ELSE [r EXCEPT !.pc = "putVote", !.today = today, !.voteCount = voteCount]]

\* lines 109-111: the vote record, 30 days
VoteRecord(store, t, r) ==
  [kv |-> Put(store, VoteKey(r.token, r.item_id), r.vote_type, VoteTtl, t),
   r |-> [r EXCEPT !.pc = "getCount"]]

\* line 115
VoteReadCount(store, t, r) ==
  [kv |-> store,
   r |-> [r EXCEPT !.pc = "putCount",
                   !.currentCount = ReadCount(store, CountKey(r.vote_type, r.item_id), t)]]

\* mutant: the counter is written back without the increment
VoteWriteCount_NoIncrement(store, t, r) ==
  [kv |-> Put(store, CountKey(r.vote_type, r.item_id), DecStr(r.currentCount), NoTtl, t),
   r |-> [r EXCEPT !.pc = "putRate"]]

\* mutant: the counter write also deletes the cache entry of the item
VoteWriteCount_DropsCache(store, t, r) ==
  LET written == Put(store, CountKey(r.vote_type, r.item_id), DecStr(r.currentCount + 1),
                     NoTtl, t)
  IN [kv |-> [k \in (DOMAIN written) \ {CacheKey(r.item_id)} |-> written[k]],
      r |-> [r EXCEPT !.pc = "putRate"]]

\* line 116
VoteWriteCount(store, t, r) ==
  [kv |-> Put(store, CountKey(r.vote_type, r.item_id), DecStr(r.currentCount + 1), NoTtl, t),
   r |-> [r EXCEPT !.pc = "putRate"]]

\* lines 119-121: the rate counter, 24 hours from this write
VoteWriteRate(store, t, r) ==
  [kv |-> Put(store, RateKey(r.token, r.today), DecStr(r.voteCount + 1), RateTtl, t),
   r |-> [r EXCEPT !.pc = "putMeta"]]

\* token.substring(0, 8)
Substring8(s) == SubSeq(s, 1, IF Len(s) < 8 THEN Len(s) ELSE 8)

\* lines 124-132: the analytics record
VoteWriteMeta(store, t, r) ==
  [kv |-> Put(store, MetaKey(r.item_id, t),
              [token_hash |-> Substring8(r.token), vote_type |-> r.vote_type,
               timestamp |-> MillisStr(t),
               date |-> IF r.date # <<>> THEN r.date ELSE r.today],
              MetaTtl, t),
   r |-> [r EXCEPT !.pc = "getLikes"]]

\* line 135
VoteReadLikes(store, t, r) ==
  [kv |-> store,
   r |-> [r EXCEPT !.pc = "getDislikes", !.likes = ReadCount(store, CountKey(LIKE, r.item_id), t)]]

\* lines 136-144
VoteReadDislikes(store, t, r) ==
  LET dislikes == ReadCount(store, CountKey(DISLIKE, r.item_id), t)
  IN [kv |-> store,
      r |-> Respond(r, 200, [success |-> TRUE, item_id |-> r.item_id, likes |-> r.likes,
                             dislikes |-> dislikes, net_score |-> r.likes - dislikes])]

VoteStep(store, t, r) ==
  CASE r.pc = "validate" -> VoteValidate(store, t, r)
    [] r.pc = "getVote" -> VoteCheckExisting(store, t, r)
    [] r.pc = "getRate" -> VoteCheckRate(store, t, r)
    [] r.pc = "putVote" -> VoteRecord(store, t, r)
    [] r.pc = "getCount" -> VoteReadCount(store, t, r)
    [] r.pc = "putCount" -> VoteWriteCount(store, t, r)
    [] r.pc = "putRate" -> VoteWriteRate(store, t, r)
    [] r.pc = "putMeta" -> VoteWriteMeta(store, t, r)
    [] r.pc = "getLikes" -> VoteReadLikes(store, t, r)
    [] r.pc = "getDislikes" -> VoteReadDislikes(store, t, r)

\* mutant: net_score is the sum of the two counters
Summary_NetIsSum(itemId, likes, dislikes) ==
  [item_id |-> itemId, likes |-> likes, dislikes |-> dislikes,
   net_score |-> likes + dislikes, total_votes |-> likes + dislikes]

\* ------------------------------------------------------------ getVoteCounts
Summary(itemId, likes, dislikes) ==
  [item_id |-> itemId, likes |-> likes, dislikes |-> dislikes,
   net_score |-> likes - dislikes, total_votes |-> likes + dislikes]

NewCounts(itemId) ==
  [kind |-> "counts", pc |-> "validate", itemId |-> itemId, likes |-> 0,
   result |-> Summary(<<>>, 0, 0), xcache |-> "none", status |-> 0,
   body |-> [error |-> "none"]]

\* lines 151-153
CountsValidate(store, t, r) ==
  [kv |-> store,
   r |-> IF r.itemId = <<>> THEN Respond(r, 400, [error |-> "Missing item_id"])
         ELSE [r EXCEPT !.pc = "getCache"]]

\* lines 156-167: a stored cache entry is returned as it is
CountsReadCache(store, t, r) ==
  LET cached == Get(store, CacheKey(r.itemId), t)
  IN [kv |-> store,
      r |-> IF cached.found
            THEN Respond([r EXCEPT !.xcache = "HIT"], 200, cached.val)
            ELSE [r EXCEPT !.pc = "rdLikes"]]

\* line 170
CountsReadLikes(store, t, r) ==
  [kv |-> store,
   r |-> [r EXCEPT !.pc = "rdDislikes", !.likes = ReadCount(store, CountKey(LIKE, r.itemId), t)]]

\* lines 171-179
CountsReadDislikes(store, t, r) ==
  LET dislikes == ReadCount(store, CountKey(DISLIKE, r.itemId), t)
  IN [kv |-> store,
      r |-> [r EXCEPT !.pc = "putCache", !.result = Summary(r.itemId, r.likes, dislikes)]]

\* mutant: the read also writes the like counter it read
CountsWriteCache_WritesCounter(store, t, r) ==
  [kv |-> Put(Put(store, CacheKey(r.itemId), r.result, CacheTtl, t),
              CountKey(LIKE, r.itemId), DecStr(r.result.likes), NoTtl, t),
   r |-> Respond([r EXCEPT !.xcache = "MISS"], 200, r.result)]

\* lines 182-193: the entry lives 60 seconds
CountsWriteCache(store, t, r) ==
  [kv |-> Put(store, CacheKey(r.itemId), r.result, CacheTtl, t),
   r |-> Respond([r EXCEPT !.xcache = "MISS"], 200, r.result)]

CountsStep(store, t, r) ==
  CASE r.pc = "validate" -> CountsValidate(store, t, r)
    [] r.pc = "getCache" -> CountsReadCache(store, t, r)
    [] r.pc = "rdLikes" -> CountsReadLikes(store, t, r)
    [] r.pc = "rdDislikes" -> CountsReadDislikes(store, t, r)
    [] r.pc = "putCache" -> CountsWriteCache(store, t, r)

\* ------------------------------------------------- getRankings and getStats
\* the characters of the model in code-point order
Ascii == <<" ", ",", "0", "1", "2", "3", "4", "5", "6", "7", "8", "9", ":",
           "a", "b", "c", "d", "e", "h", "i", "k", "l", "m", "o", "r", "s",
           "t", "u", "v">>
CharCode(c) == CHOOSE k \in 1..Len(Ascii) : Ascii[k] = c

RECURSIVE LexLess(_, _)
\* a < b in the store's key order (lexicographic by code point)
LexLess(a, b) ==
  IF b = <<>> THEN FALSE
  ELSE IF a = <<>> THEN TRUE
  ELSE IF Head(a) = Head(b) THEN LexLess(Tail(a), Tail(b))
  ELSE CharCode(Head(a)) < CharCode(Head(b))

StartsWith(s, prefix) ==
  Len(s) >= Len(prefix) /\ SubSeq(s, 1, Len(prefix)) = prefix

RECURSIVE SortedKeys(_)
\* a set of keys as a sequence in the store's key order
SortedKeys(S) ==
  IF S = {} THEN <<>>
  ELSE LET m == CHOOSE x \in S : \A y \in S \ {x} : LexLess(x, y)
       IN <<m>> \o SortedKeys(S \ {m})

\* env.VOTES.list({prefix}): the names of the live keys with the prefix
List(store, prefix, t) ==
  SortedKeys({k \in DOMAIN store :
                StartsWith(k, prefix) /\ (store[k].exp = NoTtl \/ t < store[k].exp)})

RECURSIVE ReplaceFirst(_, _)
\* s.replace(pat, ''): the first occurrence of pat is removed
ReplaceFirst(s, pat) ==
  IF Len(s) < Len(pat) THEN s
  ELSE IF StartsWith(s, pat) THEN SubSeq(s, Len(pat) + 1, Len(s))
  ELSE <<Head(s)>> \o ReplaceFirst(Tail(s), pat)

RECURSIVE InsertDesc(_, _)
\* x goes after every entry whose net_score is not smaller (the sort is stable)
InsertDesc(sorted, x) ==
  IF sorted = <<>> THEN <<x>>
  ELSE IF x.net_score - Head(sorted).net_score > 0 THEN <<x>> \o sorted
  ELSE <<Head(sorted)>> \o InsertDesc(Tail(sorted), x)

\* mutant: the list is returned in key order
SortItems_Unsorted(items) == items

RECURSIVE SortItems(_)
\* line 290: items.sort((a, b) => b.net_score - a.net_score)
SortItems(items) ==
  IF items = <<>> THEN <<>>
  ELSE InsertDesc(SortItems(SubSeq(items, 1, Len(items) - 1)), items[Len(items)])

NewRankings ==
  [kind |-> "rankings", pc |-> "list", keys |-> <<>>, likes |-> 0, items |-> <<>>,
   status |-> 0, body |-> [error |-> "none"]]

\* lines 292-296
RankingsRespond(r) ==
  LET items == SortItems(r.items)
  IN Respond(r, 200, [items |-> items, total_items |-> Len(items)])

\* line 271
RankingsList(store, t, r) ==
  LET keys == List(store, LIKE_PREFIX, t)
  IN [kv |-> store,
      r |-> IF keys = <<>> THEN RankingsRespond(r)
            ELSE [r EXCEPT !.pc = "rkLikes", !.keys = keys]]

\* lines 276-277
RankingsReadLikes(store, t, r) ==
  LET itemId == ReplaceFirst(Head(r.keys), LIKE_PREFIX)
  IN [kv |-> store,
      r |-> [r EXCEPT !.pc = "rkDislikes", !.likes = ReadCount(store, CountKey(LIKE, itemId), t)]]

\* lines 278-287
RankingsReadDislikes(store, t, r) ==
  LET itemId == ReplaceFirst(Head(r.keys), LIKE_PREFIX)
      dislikes == ReadCount(store, CountKey(DISLIKE, itemId), t)
      next == [r EXCEPT !.items = Append(r.items, Summary(itemId, r.likes, dislikes)),
                        !.keys = Tail(r.keys), !.pc = "rkLikes"]
  IN [kv |-> store,
      r |-> IF next.keys = <<>> THEN RankingsRespond(next) ELSE next]

RankingsStep(store, t, r) ==
  CASE r.pc = "list" -> RankingsList(store, t, r)
    [] r.pc = "rkLikes" -> RankingsReadLikes(store, t, r)
    [] r.pc = "rkDislikes" -> RankingsReadDislikes(store, t, r)

\* ----------------------------------------------- IEEE 754 double arithmetic
\* A JS number is a double. A positive double is [bits, exp]: the 53 bits of
\* its significand, most significant first, and the power of two of the last
\* bit, so that its value is BitsVal(bits) * 2^exp. Long significands are
\* worked on in limbs of LimbBits bits.
SigBits == 53
LimbBits == 9
LimbBase == 512
DivLimbs == 6         \* 1 + 6 * 9 = 55 quotient bits: SigBits, a guard bit and one more

Zeros(n) == [k \in 1..n |-> 0]
PadLeft(b, n) == Zeros(n - Len(b)) \o b

RECURSIVE BitsVal(_)
BitsVal(b) == IF b = <<>> THEN 0 ELSE 2 * BitsVal(SubSeq(b, 1, Len(b) - 1)) + b[Len(b)]

RECURSIVE Pow2(_)
Pow2(n) == IF n = 0 THEN 1 ELSE 2 * Pow2(n - 1)

\* the bits of a sequence of limbs, most significant limb first
LimbsToBits(limbs) ==
  [i \in 1..(LimbBits * Len(limbs)) |->
     (limbs[((i - 1) \div LimbBits) + 1] \div Pow2(LimbBits - 1 - ((i - 1) % LimbBits))) % 2]

\* the limbs of a bit string whose length is a multiple of LimbBits
BitsToLimbs(b) ==
  [j \in 1..(Len(b) \div LimbBits) |->
     BitsVal(SubSeq(b, (j - 1) * LimbBits + 1, j * LimbBits))]

RECURSIVE StripZeros(_)
StripZeros(b) == IF b # <<>> /\ Head(b) = 0 THEN StripZeros(Tail(b)) ELSE b

\* bits + 1: the trailing ones flip, and the bit above them; one bit more
Increment(b) ==
  LET n == Len(b)
      flips(i) == \A m \in (i + 1)..n : b[m] = 1
  IN [i \in 1..(n + 1) |->
        IF i = 1 THEN (IF flips(0) THEN 1 ELSE 0)
        ELSE IF flips(i - 1) THEN 1 - b[i - 1] ELSE b[i - 1]]

\* round to nearest, ties to even: bits starts with 1 and has at least
\* SigBits bits; sticky tells that the exact value has nonzero bits below them
RoundSig(bits, exp, sticky) ==
  LET n == Len(bits)
      keep == SubSeq(bits, 1, SigBits)
      rest == SubSeq(bits, SigBits + 1, n)
      guard == IF rest = <<>> THEN 0 ELSE rest[1]
      below == sticky \/ \E k \in 2..Len(rest) : rest[k] = 1
      up == guard = 1 /\ (below \/ keep[SigBits] = 1)
      inc == Increment(keep)
  IN IF ~up THEN [bits |-> keep, exp |-> exp + (n - SigBits)]
     ELSE IF inc[1] = 1 THEN [bits |-> SubSeq(inc, 1, SigBits), exp |-> exp + (n - SigBits) + 1]
     ELSE [bits |-> Tail(inc), exp |-> exp + (n - SigBits)]

RECURSIVE Normalise(_, _, _)
\* the least k with a * 2^k >= b, and a * 2^k
Normalise(a, b, k) == IF a >= b THEN [num |-> a, k |-> k] ELSE Normalise(2 * a, b, k + 1)

RECURSIVE DivLimbsOf(_, _, _)
\* n limbs of the fraction r / d for 0 <= r < d, and whether a remainder is left
DivLimbsOf(r, d, n) ==
  IF n = 0 THEN [limbs |-> <<>>, rem |-> r # 0]
  ELSE LET more == DivLimbsOf((r * LimbBase) % d, d, n - 1)
       IN [limbs |-> <<(r * LimbBase) \div d>> \o more.limbs, rem |-> more.rem]

\* a / b in double arithmetic, for integers 0 < a <= b
FloatDiv(a, b) ==
  LET nz == Normalise(a, b, 0)
      q == DivLimbsOf(nz.num - b, b, DivLimbs)
  IN RoundSig(<<1>> \o LimbsToBits(q.limbs), 0 - nz.k - LimbBits * DivLimbs, q.rem)

RECURSIVE LimbsTimes(_, _, _)
\* limbs * f + carry, one limb more
LimbsTimes(limbs, f, carry) ==
  IF limbs = <<>> THEN <<carry>>
  ELSE LET n == Len(limbs)
           v == limbs[n] * f + carry
       IN LimbsTimes(SubSeq(limbs, 1, n - 1), f, v \div LimbBase) \o <<v % LimbBase>>

\* x * 100 in double arithmetic
FloatTimes100(x) ==
  LET padded == PadLeft(x.bits, LimbBits * ((SigBits + LimbBits - 1) \div LimbBits))
      product == LimbsToBits(LimbsTimes(BitsToLimbs(padded), 100, 0))
  IN RoundSig(StripZeros(product), x.exp, FALSE)

\* Math.round(x) = floor(x + 0.5), for a positive double below 2^SigBits
MathRound(x) ==
  LET intBits == SigBits + x.exp
  IN IF intBits < 0 THEN 0
     ELSE IF intBits >= SigBits THEN BitsVal(x.bits)
     ELSE BitsVal(SubSeq(x.bits, 1, intBits)) + x.bits[intBits + 1]

\* lines 324-326
LikePercentage(totalLikes, totalDislikes) ==
  IF totalLikes + totalDislikes > 0
  THEN IF totalLikes = 0 THEN 0
       ELSE MathRound(FloatTimes100(FloatDiv(totalLikes, totalLikes + totalDislikes)))
  ELSE 0

\* ----------------------------------------------------------------- getStats
NewStats ==
  [kind |-> "stats", pc |-> "list", keys |-> <<>>, likes |-> 0, totalLikes |-> 0,
   totalDislikes |-> 0, totalItems |-> 0, status |-> 0, body |-> [error |-> "none"]]

\* lines 319-328
StatsRespond(r) ==
  Respond(r, 200, [total_likes |-> r.totalLikes, total_dislikes |-> r.totalDislikes,
                   total_votes |-> r.totalLikes + r.totalDislikes,
                   total_items |-> r.totalItems,
                   like_percentage |-> LikePercentage(r.totalLikes, r.totalDislikes)])

\* line 303
StatsList(store, t, r) ==
  LET keys == List(store, LIKE_PREFIX, t)
  IN [kv |-> store,
      r |-> IF keys = <<>> THEN StatsRespond(r)
            ELSE [r EXCEPT !.pc = "stLikes", !.keys = keys]]

\* lines 310-311
StatsReadLikes(store, t, r) ==
  LET itemId == ReplaceFirst(Head(r.keys), LIKE_PREFIX)
  IN [kv |-> store,
      r |-> [r EXCEPT !.pc = "stDislikes", !.likes = ReadCount(store, CountKey(LIKE, itemId), t)]]

\* lines 312-317
StatsReadDislikes(store, t, r) ==
  LET itemId == ReplaceFirst(Head(r.keys), LIKE_PREFIX)
      dislikes == ReadCount(store, CountKey(DISLIKE, itemId), t)
      next == [r EXCEPT !.totalLikes = r.totalLikes + r.likes,
                        !.totalDislikes = r.totalDislikes + dislikes,
                        !.totalItems = r.totalItems + 1,
                        !.keys = Tail(r.keys), !.pc = "stLikes"]
  IN [kv |-> store,
      r |-> IF next.keys = <<>> THEN StatsRespond(next) ELSE next]

StatsStep(store, t, r) ==
  CASE r.pc = "list" -> StatsList(store, t, r)
    [] r.pc = "stLikes" -> StatsReadLikes(store, t, r)
    [] r.pc = "stDislikes" -> StatsReadDislikes(store, t, r)

\* ------------------------------------------------------- getBatchVoteCounts
RECURSIVE Split(_, _)
\* s.split(sep) for a one-character separator
Split(s, sep) ==
  IF \A k \in 1..Len(s) : s[k] # sep THEN <<s>>
  ELSE LET k == CHOOSE j \in 1..Len(s) : s[j] = sep /\ \A m \in 1..(j - 1) : s[m] # sep
       IN <<SubSeq(s, 1, k - 1)>> \o Split(SubSeq(s, k + 1, Len(s)), sep)

IsSpace(c) == c = " "

RECURSIVE TrimStart(_)
TrimStart(s) == IF s # <<>> /\ IsSpace(Head(s)) THEN TrimStart(Tail(s)) ELSE s

RECURSIVE TrimEnd(_)
TrimEnd(s) == IF s # <<>> /\ IsSpace(s[Len(s)]) THEN TrimEnd(SubSeq(s, 1, Len(s) - 1)) ELSE s

\* String.prototype.trim
Trim(s) == TrimEnd(TrimStart(s))

\* mutant: blank ids are not filtered out
ParseIds_NoFilter(idsParam) == Split(idsParam, ",")

\* line 204: idsParam.split(',').filter(id => id.trim().length > 0)
ParseIds(idsParam) == SelectSeq(Split(idsParam, ","), LAMBDA id : Len(Trim(id)) > 0)

\* results[key] = value on a plain object
Assign(obj, key, value) ==
  [k \in (DOMAIN obj) \cup {key} |-> IF k = key THEN value ELSE obj[k]]

NoResults == [k \in {} |-> 0]

NewBatch(idsParam) ==
  [kind |-> "batch", pc |-> "validate", idsParam |-> idsParam, itemIds |-> <<>>,
   tasks |-> <<>>, results |-> NoResults, cacheHits |-> 0, cacheMisses |-> 0,
   status |-> 0, body |-> [error |-> "none"]]

\* lines 252-257
BatchRespond(r) ==
  Respond(r, 200, [results |-> r.results, count |-> Len(r.itemIds),
                   cache_hits |-> r.cacheHits, cache_misses |-> r.cacheMisses])

\* lines 200-221: the checks, then every task runs up to its first await
BatchValidate(store, t, r) ==
  LET itemIds == ParseIds(r.idsParam)
  IN [kv |-> store,
      r |-> IF r.idsParam = <<>> THEN Respond(r, 400, [error |-> "Missing ids parameter"])
            ELSE IF Len(itemIds) = 0
            THEN Respond(r, 400, [error |-> "No valid item IDs provided"])
            ELSE IF Len(itemIds) > MaxBatchIds
            THEN Respond(r, 400, [error |-> "Too many IDs (max 200)"])
            ELSE [r EXCEPT !.pc = "tasks", !.itemIds = itemIds,
                           !.tasks = [k \in 1..Len(itemIds) |->
                                        [trimmedId |-> Trim(itemIds[k]), pc |-> "getCache",
                                         likes |-> 0, result |-> Summary(<<>>, 0, 0)]]]]

BatchFinish(r) ==
  IF \A k \in 1..Len(r.tasks) : r.tasks[k].pc = "done" THEN BatchRespond(r) ELSE r

\* lines 223-228: task k reads its cache entry; a hit is parsed into results
BatchReadCache(store, t, r, k) ==
  LET task == r.tasks[k]
      cached == Get(store, CacheKey(task.trimmedId), t)
  IN [kv |-> store,
      r |-> IF cached.found
            THEN BatchFinish([r EXCEPT !.results = Assign(r.results, task.trimmedId, cached.val),
                                       !.cacheHits = r.cacheHits + 1,
                                       !.tasks[k].pc = "done"])
            ELSE [r EXCEPT !.tasks[k].pc = "rdLikes"]]

\* line 231
BatchReadLikes(store, t, r, k) ==
  LET task == r.tasks[k]
  IN [kv |-> store,
      r |-> [r EXCEPT !.tasks[k].pc = "rdDislikes",
                      !.tasks[k].likes = ReadCount(store, CountKey(LIKE, task.trimmedId), t)]]

\* lines 232-243: the result is stored in results before the cache write
BatchReadDislikes(store, t, r, k) ==
  LET task == r.tasks[k]
      dislikes == ReadCount(store, CountKey(DISLIKE, task.trimmedId), t)
      result == Summary(task.trimmedId, task.likes, dislikes)
  IN [kv |-> store,
      r |-> [r EXCEPT !.results = Assign(r.results, task.trimmedId, result),
                      !.cacheMisses = r.cacheMisses + 1,
                      !.tasks[k].result = result,
                      !.tasks[k].pc = "putCache"]]

\* mutant: a miss is not written to the cache
BatchWriteCache_Skipped(store, t, r, k) ==
  [kv |-> store,
   r |-> BatchFinish([r EXCEPT !.tasks[k].pc = "done"])]

\* lines 246-248
BatchWriteCache(store, t, r, k) ==
  LET task == r.tasks[k]
  IN [kv |-> Put(store, CacheKey(task.trimmedId), task.result, CacheTtl, t),
      r |-> BatchFinish([r EXCEPT !.tasks[k].pc = "done"])]

\* one step of task k of the Promise.all
BatchTaskStep(store, t, r, k) ==
  CASE r.tasks[k].pc = "getCache" -> BatchReadCache(store, t, r, k)
    [] r.tasks[k].pc = "rdLikes" -> BatchReadLikes(store, t, r, k)
    [] r.tasks[k].pc = "rdDislikes" -> BatchReadDislikes(store, t, r, k)
    [] r.tasks[k].pc = "putCache" -> BatchWriteCache(store, t, r, k)

\* ------------------------------------------------------------ state machine
Tokens == {<<"t">>, <<"u">>}
Items == {<<"a">>, <<"b">>}
Pairs == Tokens \X Items
DateInputs == {<<>>}
\* the bodies of POST /vote: every vote of a token on an item, and bodies with
\* a field missing ('' stands for a missing field as well) or a bad vote type
VoteInputs ==
  [item_id : Items, token : Tokens, vote_type : VoteTypes, date : DateInputs]
  \cup {[item_id |-> <<>>, token |-> <<"t">>, vote_type |-> LIKE, date |-> <<>>],
        [item_id |-> <<"a">>, token |-> <<>>, vote_type |-> LIKE, date |-> <<>>],
        [item_id |-> <<"a">>, token |-> <<"t">>, vote_type |-> <<>>, date |-> <<>>],
        [item_id |-> <<"a">>, token |-> <<"t">>, vote_type |-> <<"l", "o", "v", "e">>,
         date |-> <<>>]}
ItemInputs == Items \cup {<<>>}
\* the valid bodies
Votes == [item_id : Items, token : Tokens, vote_type : VoteTypes, date : DateInputs]
\* the clock advances by a cache lifetime, half a day or a vote lifetime
TickSteps == {CacheTtl, DaySeconds \div 2, VoteTtl}

VARIABLES
  kv,           \* env.VOTES: key -> [val, exp]
  now,          \* the clock, seconds since the epoch
  ticks,        \* clock advances so far
  started,      \* requests started so far
  procs,        \* slot -> the request in flight in it, or Idle
  resp,         \* the last request that was answered, as it ended
  prior,        \* token -> votes it cast on day 0 before Init (on items outside Items)
  accepts,      \* (token, item) -> votes answered 200
  incs,         \* (token, item) -> counter writes made for it
  tally,        \* (vote type, item) -> votes answered 200
  dayAccepts,   \* (token, date) -> votes answered 200 whose rate check read that date
  okUntil,      \* (token, item) -> expiry of the record of its latest vote answered 200
  acceptTimes,  \* token -> the times at which its votes were answered 200
  pct,          \* SpecPct: the totals handed to the stats answer
  localStorage  \* the browser's localStorage: key -> value (the client, part_000)

vars == <<kv, now, ticks, started, procs, resp, prior, accepts, incs, tally,
          dayAccepts, okUntil, acceptTimes, pct, localStorage>>
ghost == <<accepts, incs, tally, dayAccepts, okUntil, acceptTimes>>

Idle == [kind |-> "idle", pc |-> "idle"]
NoResp == [kind |-> "none", pc |-> "none", status |-> 0]
EmptyStore == [k \in {} |-> 0]
NoPct == [likes |-> 0, dislikes |-> 0, asked |-> FALSE]

Slots == 1..MaxProcs
AllIdle == \A p \in Slots : procs[p].kind = "idle"
\* a new request takes the lowest free slot
FreeSlot(p) == procs[p].kind = "idle" /\ \A q \in 1..(p - 1) : procs[q].kind # "idle"

DayCount(t, d) == IF <<t, d>> \in DOMAIN dayAccepts THEN dayAccepts[<<t, d>>] ELSE 0

Max(a, b) == IF a >= b THEN a ELSE b

\* votes of token t answered 200 in the RateTtl seconds up to time at
WindowCount(t, at) ==
  (IF at - StartTime < RateTtl THEN prior[t] ELSE 0)
  + Cardinality({k \in 1..Len(acceptTimes[t]) : at - acceptTimes[t][k] < RateTtl})

\* the store of tokens that voted pr[t] times today, the last time at StartTime
PriorStore(pr) ==
  LET voted == {t \in Tokens : pr[t] > 0}
  IN [k \in {RateKey(t, Today(StartTime)) : t \in voted} |->
        LET t == CHOOSE x \in voted : RateKey(x, Today(StartTime)) = k
        IN [val |-> DecStr(pr[t]), exp |-> StartTime + RateTtl]]

InitCommon ==
  /\ now = StartTime
  /\ ticks = 0
  /\ started = 0
  /\ procs = [p \in Slots |-> Idle]
  /\ resp = NoResp
  /\ accepts = [pr \in Pairs |-> 0]
  /\ incs = [pr \in Pairs |-> 0]
  /\ tally = [x \in VoteTypes \X Items |-> 0]
  /\ okUntil = [pr \in Pairs |-> 0]
  /\ acceptTimes = [t \in Tokens |-> <<>>]
  /\ localStorage = EmptyStore

\* a fresh namespace
InitEmpty ==
  /\ InitCommon
  /\ pct = NoPct
  /\ prior = [t \in Tokens |-> 0]
  /\ kv = EmptyStore
  /\ dayAccepts = [k \in {} |-> 0]

\* a namespace in which each token has votes of the day behind it
InitPrior ==
  /\ InitCommon
  /\ pct = NoPct
  /\ prior \in [Tokens -> {0} \cup ((RateLimit - Headroom)..RateLimit)]
  /\ kv = PriorStore(prior)
  /\ dayAccepts = [k \in {<<t, Today(StartTime)>> : t \in Tokens} |-> prior[k[1]]]

\* ---- what a vote request is observed to do (not part of the worker)
Observed(in, alone) ==
  [g_sawOk |-> IF <<in.token, in.item_id>> \in Pairs THEN okUntil[<<in.token, in.item_id>>] ELSE 0,
   g_win |-> IF in.token \in Tokens THEN WindowCount(in.token, now) ELSE 0,
   g_dupLive |-> FALSE, g_dayCount |-> 0, g_exp |-> 0, g_incs |-> 0, g_alone |-> alone]

\* the request, with what its next step observes noted on it
Noted(r) ==
  CASE r.pc = "getVote" -> [r EXCEPT !.g_dupLive = r.g_sawOk > now]
    [] r.pc = "getRate" -> [r EXCEPT !.g_dayCount = DayCount(r.token, Today(now))]
    [] r.pc = "putVote" -> [r EXCEPT !.g_exp = now + VoteTtl]
    [] r.pc = "putCount" -> [r EXCEPT !.g_incs = r.g_incs + 1]
    [] OTHER -> r

Bump(f, k, n) == [f EXCEPT ![k] = f[k] + n]

\* the counts of answered votes after request r ended
Counted(r) ==
  LET pair == <<r.token, r.item_id>>
      ok == r.status = 200
  IN /\ accepts' = IF ok THEN Bump(accepts, pair, 1) ELSE accepts
     /\ tally' = IF ok THEN Bump(tally, <<r.vote_type, r.item_id>>, 1) ELSE tally
     /\ dayAccepts' = IF ok
                      THEN [k \in (DOMAIN dayAccepts) \cup {<<r.token, r.today>>} |->
                              IF k = <<r.token, r.today>> THEN DayCount(r.token, r.today) + 1
                              ELSE dayAccepts[k]]
                      ELSE dayAccepts
     /\ okUntil' = IF ok THEN [okUntil EXCEPT ![pair] = Max(okUntil[pair], r.g_exp)]
                   ELSE okUntil
     /\ acceptTimes' = IF ok THEN [acceptTimes EXCEPT ![r.token] = Append(@, now)]
                       ELSE acceptTimes

\* a request that starts while another is in flight: neither is alone
Overlapped(ps) ==
  [q \in Slots |-> IF ps[q].kind = "vote" THEN [ps[q] EXCEPT !.g_alone = FALSE] ELSE ps[q]]

\* ---- POST /vote, await by await
StartVote(p, in) ==
  /\ started < MaxRequests
  /\ FreeSlot(p)
  /\ started' = started + 1
  /\ procs' = [Overlapped(procs) EXCEPT ![p] =
                 NewVote(in.item_id, in.token, in.vote_type, in.date) @@ Observed(in, AllIdle)]
  /\ UNCHANGED <<kv, now, ticks, resp, prior, localStorage, ghost, pct>>

\* one await of handleVote in slot p
VoteAdvance(p) ==
  /\ procs[p].kind = "vote"
  /\ LET r == Noted(procs[p])
         out == VoteStep(kv, now, r)
         ended == out.r.pc = "done"
     IN /\ kv' = out.kv
        /\ procs' = [procs EXCEPT ![p] = IF ended THEN Idle ELSE out.r]
        /\ resp' = IF ended THEN out.r ELSE resp
        /\ incs' = IF procs[p].pc = "putCount" /\ <<r.token, r.item_id>> \in Pairs
                   THEN Bump(incs, <<r.token, r.item_id>>, 1) ELSE incs
        /\ IF ended THEN Counted(out.r)
           ELSE UNCHANGED <<accepts, tally, dayAccepts, okUntil, acceptTimes>>
  /\ UNCHANGED <<now, ticks, started, prior, localStorage, pct>>

\* ---- the clock
Tick(d) ==
  /\ ticks < MaxTicks
  /\ ticks' = ticks + 1
  /\ now' = now + d
  /\ kv' = Purge(kv, now + d)
  /\ UNCHANGED <<started, procs, resp, prior, localStorage, ghost, pct>>

\* ---- requests run from the first await to the answer in one step
RECURSIVE RunVote(_, _, _)
RunVote(store, t, r) ==
  IF r.pc = "done" THEN [kv |-> store, r |-> r]
  ELSE LET out == VoteStep(store, t, Noted(r)) IN RunVote(out.kv, t, out.r)

RECURSIVE RunCounts(_, _, _)
RunCounts(store, t, r) ==
  IF r.pc = "done" THEN [kv |-> store, r |-> r]
  ELSE LET out == CountsStep(store, t, r) IN RunCounts(out.kv, t, out.r)

RECURSIVE RunRankings(_, _, _)
RunRankings(store, t, r) ==
  IF r.pc = "done" THEN [kv |-> store, r |-> r]
  ELSE LET out == RankingsStep(store, t, r) IN RunRankings(out.kv, t, out.r)

RECURSIVE RunStats(_, _, _)
RunStats(store, t, r) ==
  IF r.pc = "done" THEN [kv |-> store, r |-> r]
  ELSE LET out == StatsStep(store, t, r) IN RunStats(out.kv, t, out.r)

\* a request that runs alone: nothing else touches the store meanwhile
Answered(out) ==
  /\ started' = started + 1
  /\ kv' = out.kv
  /\ resp' = out.r
  /\ UNCHANGED <<now, ticks, procs, prior, localStorage, pct>>

SeqVote(in) ==
  LET out == RunVote(kv, now, NewVote(in.item_id, in.token, in.vote_type, in.date)
                                @@ Observed(in, TRUE))
  IN /\ Answered(out)
     /\ incs' = IF out.r.g_incs > 0 THEN Bump(incs, <<in.token, in.item_id>>, out.r.g_incs)
                ELSE incs
     /\ Counted(out.r)

SeqCounts(itemId) ==
  Answered(RunCounts(kv, now, NewCounts(itemId))) /\ UNCHANGED ghost

SeqRankings == Answered(RunRankings(kv, now, NewRankings)) /\ UNCHANGED ghost

SeqStats == Answered(RunStats(kv, now, NewStats)) /\ UNCHANGED ghost

\* ------------------------------------------------------------ specifications
\* Spec: vote requests in every interleaving of their awaits, on a namespace
\* with a day's votes behind it.
\* Requests overlap within one second: the clock stands still.
Init == InitPrior

StartAnyVote == \E p \in Slots, in \in VoteInputs : StartVote(p, in)
AdvanceVote == \E p \in Slots : VoteAdvance(p)
AdvanceClock == \E d \in TickSteps : Tick(d)

Next == StartAnyVote \/ AdvanceVote

Spec == Init /\ [][Next]_vars

\* SpecSeq: requests of every kind, one at a time, on a fresh namespace.
AnyVote == started < SeqRequests /\ \E in \in VoteInputs : SeqVote(in)
AnyCounts == started < SeqRequests /\ \E i \in ItemInputs : SeqCounts(i)
AnyRankings == started < SeqRequests /\ SeqRankings
AnyStats == started < SeqRequests /\ SeqStats

NextSeq == AnyVote \/ AnyCounts \/ AnyRankings \/ AnyStats \/ AdvanceClock

SpecSeq == InitEmpty /\ [][NextSeq]_vars

\* SpecRate: votes one at a time, on a namespace with a day's votes behind it.
RateVote == started < RateRequests /\ \E in \in Votes : SeqVote(in)

NextRate == RateVote \/ AdvanceClock

SpecRate == InitPrior /\ [][NextRate]_vars

\* SpecRank: valid votes one at a time on a fresh namespace, then the scans.
RankVote == started < RankRequests /\ \E in \in Votes : SeqVote(in)
RankRankings == started < RankRequests /\ SeqRankings
RankStats == started < RankRequests /\ SeqStats

NextRank == RankVote \/ RankRankings \/ RankStats

SpecRank == InitEmpty /\ [][NextRank]_vars

\* SpecBatch: a batch request, its tasks in every interleaving, on a namespace
\* that is fresh or has answered votes and reads of item a.
RECURSIVE StringsOver(_, _)
\* the strings of n characters of the alphabet
StringsOver(alphabet, n) ==
  IF n = 0 THEN {<<>>}
  ELSE {<<c>> \o w : c \in alphabet, w \in StringsOver(alphabet, n - 1)}

IdsParams == UNION {StringsOver({"a", " ", ","}, n) : n \in 0..MaxParamLen}

Begin(p, r) ==
  /\ FreeSlot(p)
  /\ started' = started + 1
  /\ procs' = [Overlapped(procs) EXCEPT ![p] = r]
  /\ UNCHANGED <<kv, now, ticks, resp, prior, localStorage, ghost, pct>>

Finish(p, out) ==
  /\ kv' = out.kv
  /\ procs' = [procs EXCEPT ![p] = IF out.r.pc = "done" THEN Idle ELSE out.r]
  /\ resp' = IF out.r.pc = "done" THEN out.r ELSE resp
  /\ UNCHANGED <<now, ticks, started, prior, localStorage, ghost, pct>>

\* GET /votes/batch?ids=...
StartBatch(p, idsParam) == Begin(p, NewBatch(idsParam))
BatchCheck(p) ==
  /\ procs[p].kind = "batch"
  /\ procs[p].pc = "validate"
  /\ Finish(p, BatchValidate(kv, now, procs[p]))
BatchAdvance(p, k) ==
  /\ procs[p].kind = "batch"
  /\ procs[p].pc = "tasks"
  /\ k \in 1..Len(procs[p].tasks)
  /\ procs[p].tasks[k].pc # "done"
  /\ Finish(p, BatchTaskStep(kv, now, procs[p], k))

BatchWarmVote ==
  /\ AllIdle /\ started + 1 < BatchRequests
  /\ \E in \in Votes : in.item_id = <<"a">> /\ SeqVote(in)
BatchWarmCounts == AllIdle /\ started + 1 < BatchRequests /\ SeqCounts(<<"a">>)
\* one batch request in a behaviour
BatchStart ==
  /\ AllIdle /\ started < BatchRequests /\ resp.kind # "batch"
  /\ \E p \in Slots, ids \in IdsParams : StartBatch(p, ids)
BatchValidation == \E p \in Slots : BatchCheck(p)
BatchTask == \E p \in Slots : \E k \in 1..MaxParamLen : BatchAdvance(p, k)

NextBatch == BatchWarmVote \/ BatchWarmCounts \/ BatchStart \/ BatchValidation \/ BatchTask

SpecBatch == InitEmpty /\ [][NextBatch]_vars

\* SpecPct: the answer of getStats for totals that its scan can add up to: the
\* votes of one item, which is listed when it has a like.
InitPct ==
  /\ InitCommon
  /\ prior = [t \in Tokens |-> 0]
  /\ kv = EmptyStore
  /\ dayAccepts = [k \in {} |-> 0]
  /\ pct \in {x \in [likes : 0..PctMaxLikes, dislikes : 0..PctMaxDislikes, asked : {FALSE}] :
                 x.likes > 0 \/ x.dislikes = 0}

\* lines 319-328 on the totals the scan added up
AnswerStats ==
  /\ ~pct.asked
  /\ pct' = [pct EXCEPT !.asked = TRUE]
  /\ resp' = StatsRespond([NewStats EXCEPT !.totalLikes = pct.likes,
                                           !.totalDislikes = pct.dislikes,
                                           !.totalItems = IF pct.likes > 0 THEN 1 ELSE 0])
  /\ UNCHANGED <<kv, now, ticks, started, procs, prior, localStorage, ghost>>

NextPct == AnswerStats

SpecPct == InitPct /\ [][NextPct]_vars

\* SpecCache: single reads await by await, votes between their awaits, and a
\* clock that moves while a read is in flight, on a fresh namespace.
\* the clock advances by half a cache lifetime, or by a second more
CacheTickSteps == {CacheTtl \div 2, CacheTtl \div 2 + 1}

\* GET /votes/:item_id; g_start notes the time at which the request started
StartCounts(p, itemId) == Begin(p, NewCounts(itemId) @@ [g_start |-> now])
\* one await of getVoteCounts in slot p
CountsAdvance(p) ==
  /\ procs[p].kind = "counts"
  /\ Finish(p, CountsStep(kv, now, procs[p]))

CacheTick(d) ==
  /\ ticks < MaxCacheTicks
  /\ ticks' = ticks + 1
  /\ now' = now + d
  /\ kv' = Purge(kv, now + d)
  /\ UNCHANGED <<started, procs, resp, prior, localStorage, ghost, pct>>

CacheVote == started < CacheRequests /\ \E in \in Votes : SeqVote(in)
CacheRead ==
  /\ started < CacheRequests
  /\ \E p \in Slots, i \in Items : StartCounts(p, i)
CacheReadStep == \E p \in Slots : CountsAdvance(p)
CacheClock == \E d \in CacheTickSteps : CacheTick(d)

NextCache == CacheVote \/ CacheRead \/ CacheReadStep \/ CacheClock

SpecCache == InitEmpty /\ [][NextCache]_vars

\* ------------------------------------------- the client (src/unnamed/part_000)
\* What comes back from fetch: no response at all (the promise rejects), the
\* worker's answer, the worker's 500 (its catch block), or a 2xx answer
\* whose body is not JSON.
Faults == {"none", "network", "status500", "badjson"}

\* the worker's catch block
InternalError == [error |-> "Internal server error"]

Reply(fault, r) ==
  [arrived |-> fault # "network",
   status |-> IF fault = "status500" THEN 500 ELSE r.status,
   parses |-> fault # "badjson",
   body |-> IF fault = "status500" THEN InternalError ELSE r.body]

\* response.ok
ResponseOk(reply) == reply.status \in 200..299

Threw == [threw |-> TRUE, value |-> <<>>]
Returned(v) == [threw |-> FALSE, value |-> v]

\* the body of the try blocks: await fetch, throw unless response.ok, await
\* response.json()
FetchJson(reply) ==
  IF ~reply.arrived THEN Threw
  ELSE IF ~ResponseOk(reply) THEN Threw
  ELSE IF ~reply.parses THEN Threw
  ELSE Returned(reply.body)

ZeroCounts == [likes |-> 0, dislikes |-> 0, net_score |-> 0, total_votes |-> 0]
ZeroStats == [total_likes |-> 0, total_dislikes |-> 0, total_votes |-> 0,
              total_items |-> 0, like_percentage |-> 0]

\* getVoteCounts(itemId)
ClientGetVoteCounts(reply) ==
  LET try == FetchJson(reply)
  IN IF try.threw THEN Returned(ZeroCounts) ELSE Returned(try.value)

RECURSIVE Join(_, _)
\* itemIds.join(sep)
Join(strs, sep) ==
  IF strs = <<>> THEN <<>>
  ELSE IF Len(strs) = 1 THEN strs[1]
  ELSE strs[1] \o sep \o Join(Tail(strs), sep)

RECURSIVE EncodeURIComponent(_)
\* ',' and ' ' are escaped, letters are kept
EncodeURIComponent(s) ==
  IF s = <<>> THEN <<>>
  ELSE (CASE Head(s) = "," -> <<"%", "2", "C">>
          [] Head(s) = " " -> <<"%", "2", "0">>
          [] OTHER -> <<Head(s)>>) \o EncodeURIComponent(Tail(s))

RECURSIVE DecodeQuery(_)
\* url.searchParams.get: '+' is a space and %XX is the character of code XX
DecodeQuery(s) ==
  IF s = <<>> THEN <<>>
  ELSE IF Head(s) = "+" THEN <<" ">> \o DecodeQuery(Tail(s))
  ELSE IF Head(s) = "%" /\ Len(s) >= 3
  THEN (CASE SubSeq(s, 2, 3) = <<"2", "C">> -> <<",">>
          [] SubSeq(s, 2, 3) = <<"2", "0">> -> <<" ">>
          [] OTHER -> SubSeq(s, 1, 3)) \o DecodeQuery(SubSeq(s, 4, Len(s)))
  ELSE <<Head(s)>> \o DecodeQuery(Tail(s))

\* the query of the batch request, as the worker reads it
BatchQuery(itemIds) == DecodeQuery(EncodeURIComponent(Join(itemIds, <<",">>)))

\* mutant: the fallback is an empty map
BatchFallback_Empty(itemIds) == NoResults

RECURSIVE BatchFallback(_)
\* the catch block: itemIds.forEach(id => emptyResults[id] = {...})
BatchFallback(itemIds) ==
  IF itemIds = <<>> THEN NoResults
  ELSE Assign(BatchFallback(SubSeq(itemIds, 1, Len(itemIds) - 1)),
              itemIds[Len(itemIds)], ZeroCounts)

\* getBatchVoteCounts(itemIds), itemIds not empty
ClientGetBatchVoteCounts(itemIds, reply) ==
  LET try == FetchJson(reply)
  IN IF try.threw THEN Returned(BatchFallback(itemIds))
     ELSE Returned(try.value.results)

\* getRankings()
ClientGetRankings(reply) ==
  LET try == FetchJson(reply)
  IN IF try.threw THEN Returned(<<>>) ELSE Returned(try.value.items)

\* getStats()
ClientGetStats(reply) ==
  LET try == FetchJson(reply)
  IN IF try.threw THEN Returned(ZeroStats) ELSE Returned(try.value)

\* the worker's batch handler with its tasks run one after the other
RECURSIVE RunBatch(_, _, _)
RunBatch(store, t, r) ==
  IF r.pc = "done" THEN [kv |-> store, r |-> r]
  ELSE IF r.pc = "validate"
  THEN LET out == BatchValidate(store, t, r) IN RunBatch(out.kv, t, out.r)
  ELSE LET k == CHOOSE j \in 1..Len(r.tasks) :
                  r.tasks[j].pc # "done" /\ \A m \in 1..(j - 1) : r.tasks[m].pc = "done"
           out == BatchTaskStep(store, t, r, k)
       IN RunBatch(out.kv, t, out.r)

\* a client call: the worker runs unless the request is lost, and the client
\* function turns what comes back into its result
Called(op, ids, fault, out) ==
  LET reply == Reply(fault, out.r)
  IN /\ started' = started + 1
     /\ kv' = IF fault \in {"none", "badjson"} THEN out.kv ELSE kv
     /\ resp' = [kind |-> "client", op |-> op, ids |-> ids, reply |-> reply,
                 result |-> CASE op = "counts" -> ClientGetVoteCounts(reply)
                              [] op = "batch" -> ClientGetBatchVoteCounts(ids, reply)
                              [] op = "rankings" -> ClientGetRankings(reply)
                              [] op = "stats" -> ClientGetStats(reply)]
     /\ UNCHANGED <<now, ticks, procs, prior, localStorage, ghost, pct>>

ClientIdLists == UNION {[1..n -> Items] : n \in 0..MaxClientIds}

\* SpecClient: the client's reads, one at a time, against the worker on a
\* namespace that is fresh or holds votes.
ClientWarmVote == started + 1 < ClientRequests /\ \E in \in Votes : SeqVote(in)
ClientCounts ==
  /\ started < ClientRequests
  /\ \E i \in ItemInputs, fault \in Faults :
       Called("counts", <<i>>, fault, RunCounts(kv, now, NewCounts(i)))
\* lines 106-108: no request is made for an empty list
ClientBatch ==
  /\ started < ClientRequests
  /\ \E ids \in ClientIdLists, fault \in Faults :
       IF Len(ids) = 0
       THEN /\ started' = started + 1
            /\ resp' = [kind |-> "client", op |-> "batch", ids |-> ids,
                        reply |-> Reply("network", NoResp @@ [body |-> InternalError]),
                        result |-> Returned(NoResults)]
            /\ UNCHANGED <<kv, now, ticks, procs, prior, localStorage, ghost, pct>>
       ELSE Called("batch", ids, fault, RunBatch(kv, now, NewBatch(BatchQuery(ids))))
ClientRankings ==
  /\ started < ClientRequests
  /\ \E fault \in Faults : Called("rankings", <<>>, fault, RunRankings(kv, now, NewRankings))
ClientStats ==
  /\ started < ClientRequests
  /\ \E fault \in Faults : Called("stats", <<>>, fault, RunStats(kv, now, NewStats))

NextClient == ClientWarmVote \/ ClientCounts \/ ClientBatch \/ ClientRankings \/ ClientStats

SpecClient == InitEmpty /\ [][NextClient]_vars

\* ---- voteForItem (src/unnamed/part_000, lines 26-70)
VOTE_TIME_PREFIX == <<"v", "o", "t", "e", "_", "t", "i", "m", "e", ":">>
\* localKey and the key of the time of the vote
LocalKey(token, itemId) == VOTE_PREFIX \o token \o COLON \o itemId
LocalTimeKey(token, itemId) == VOTE_TIME_PREFIX \o token \o COLON \o itemId

\* throw new Error(message)
Thrown(message) == [threw |-> TRUE, value |-> message]

\* localStorage.getItem(key) is truthy
HasItem(storage, key) == key \in DOMAIN storage /\ storage[key] # <<>>
\* localStorage.setItem(key, value)
SetItem(storage, key, value) == Assign(storage, key, value)

\* lines 27-37: what voteForItem throws before it sends anything
VotePrecheck(storage, token, itemId, voteType) ==
  IF voteType \notin VoteTypes THEN Thrown("Invalid vote type")
  ELSE IF HasItem(storage, LocalKey(token, itemId)) THEN Thrown("Already voted")
  ELSE Returned(<<>>)

\* mutant: the mark is stored as soon as a response arrives
VoteAfterFetch_MarksFirst(storage, token, itemId, voteType, t, reply) ==
  LET marked == SetItem(SetItem(storage, LocalKey(token, itemId), voteType),
                        LocalTimeKey(token, itemId), MillisStr(t))
  IN IF ~reply.arrived THEN [storage |-> storage, result |-> Thrown("fetch failed")]
     ELSE IF ~ResponseOk(reply)
     THEN [storage |-> marked,
           result |-> IF reply.parses THEN Thrown(reply.body.error)
                      ELSE Thrown("SyntaxError")]
     ELSE IF ~reply.parses THEN [storage |-> marked, result |-> Thrown("SyntaxError")]
     ELSE [storage |-> marked, result |-> Returned(reply.body)]

\* lines 39-69: the try block on what came back from fetch, and the catch that
\* throws the error again
VoteAfterFetch(storage, token, itemId, voteType, t, reply) ==
  IF ~reply.arrived THEN [storage |-> storage, result |-> Thrown("fetch failed")]
  ELSE IF ~ResponseOk(reply)
  THEN [storage |-> storage,
        result |-> IF reply.parses THEN Thrown(reply.body.error)
                   ELSE Thrown("SyntaxError")]
  ELSE IF ~reply.parses THEN [storage |-> storage, result |-> Thrown("SyntaxError")]
  ELSE [storage |-> SetItem(SetItem(storage, LocalKey(token, itemId), voteType),
                            LocalTimeKey(token, itemId), MillisStr(t)),
        result |-> Returned(reply.body)]

\* the vote types handed to voteForItem: the two, and one that is neither
MarkVoteTypes == VoteTypes \cup {<<"l", "o", "v", "e">>}

\* voteForItem(itemId, voteType, date) with the token getUserToken returned:
\* nothing is sent when the precheck throws; otherwise the worker runs the
\* vote unless the request is lost
VoteForItem(token, itemId, voteType, fault) ==
  LET pre == VotePrecheck(localStorage, token, itemId, voteType)
      in == [item_id |-> itemId, token |-> token, vote_type |-> voteType, date |-> <<>>]
      out == RunVote(kv, now, NewVote(itemId, token, voteType, <<>>) @@ Observed(in, TRUE))
      ran == ~pre.threw /\ fault \in {"none", "badjson"}
      reply == Reply(fault, out.r)
      after == VoteAfterFetch(localStorage, token, itemId, voteType, now, reply)
  IN /\ started' = started + 1
     /\ kv' = IF ran THEN out.kv ELSE kv
     /\ localStorage' = IF pre.threw THEN localStorage ELSE after.storage
     /\ resp' = [kind |-> "voteForItem", token |-> token, itemId |-> itemId,
                 voteType |-> voteType, sent |-> ~pre.threw,
                 reply |-> IF pre.threw THEN Reply("network", NoResp @@ [body |-> InternalError])
                           ELSE reply,
                 result |-> IF pre.threw THEN pre ELSE after.result]
     /\ IF ran
        THEN /\ incs' = IF out.r.g_incs > 0
                        THEN Bump(incs, <<token, itemId>>, out.r.g_incs) ELSE incs
             /\ Counted(out.r)
        ELSE UNCHANGED ghost
     /\ UNCHANGED <<now, ticks, procs, prior, pct>>

\* SpecMark: calls of voteForItem one at a time from one browser, whose token
\* getUserToken may return differently from call to call, against the worker
\* on a namespace with a day's votes behind it.
MarkCall ==
  /\ started < MarkRequests
  /\ \E token \in Tokens, itemId \in Items, voteType \in MarkVoteTypes, fault \in Faults :
       VoteForItem(token, itemId, voteType, fault)

NextMark == MarkCall

SpecMark == InitPrior /\ [][NextMark]_vars

\* SpecCount: votes of three voters on item a in every interleaving of their
\* awaits, on a fresh namespace.
CountVoters == {<<"t">>, <<"u">>, <<"v">>}
CountInputs == [item_id : {<<"a">>}, token : CountVoters, vote_type : VoteTypes,
                date : DateInputs]

CountStart ==
  /\ started < CountRequests
  /\ \E p \in Slots, in \in CountInputs :
       Begin(p, NewVote(in.item_id, in.token, in.vote_type, in.date) @@ Observed(in, AllIdle))
\* one await of handleVote in slot p
CountStep ==
  \E p \in Slots : procs[p].kind = "vote" /\ Finish(p, VoteStep(kv, now, procs[p]))

NextCount == CountStart \/ CountStep

SpecCount == InitEmpty /\ [][NextCount]_vars

\* SpecFrame: one vote request at a time await by await, with whole vote
\* requests of others between its awaits, on a namespace with a day's votes
\* behind it.
FrameStart ==
  /\ AllIdle /\ started < FrameRequests
  /\ \E p \in Slots, in \in VoteInputs : StartVote(p, in)
FrameStep == \E p \in Slots : VoteAdvance(p)
FrameVote == started < FrameRequests /\ \E in \in Votes : SeqVote(in)

NextFrame == FrameStart \/ FrameStep \/ FrameVote

SpecFrame == InitPrior /\ [][NextFrame]_vars

\* SpecRace: likes of both tokens and dislikes of token t on item a in every
\* interleaving of their awaits, on a namespace in which token t is at the
\* rate limit or Headroom votes below it.
InitRace == InitPrior /\ prior[<<"u">>] = 0 /\ prior[<<"t">>] > 0
RaceInputs ==
  {in \in Votes : in.item_id = <<"a">> /\ (in.token = <<"t">> \/ in.vote_type = LIKE)}

RaceStart ==
  /\ started < RaceRequests
  /\ \E p \in Slots, in \in RaceInputs : StartVote(p, in)
RaceStep == \E p \in Slots : VoteAdvance(p)

NextRace == RaceStart \/ RaceStep

SpecRace == InitRace /\ [][NextRace]_vars

\* SpecPerItem: one batch request over the items a and b, its tasks in every
\* interleaving, after votes and single reads that ran one at a time on a
\* fresh namespace. g_store notes the store at the start of the batch request.
PerItemIdsParams == UNION {StringsOver({"a", "b", " ", ","}, n) : n \in 0..PerItemParamLen}
PerItemVotes == {in \in Votes : in.token = <<"t">> /\ in.vote_type = LIKE}

PerItemWarmVote ==
  /\ AllIdle /\ started + 1 < PerItemRequests /\ resp.kind # "batch"
  /\ \E in \in PerItemVotes : SeqVote(in)
PerItemWarmCounts ==
  /\ AllIdle /\ started + 1 < PerItemRequests /\ resp.kind # "batch"
  /\ \E i \in Items : SeqCounts(i)
PerItemStart ==
  /\ AllIdle /\ started < PerItemRequests /\ resp.kind # "batch"
  /\ \E p \in Slots, ids \in PerItemIdsParams :
       Begin(p, NewBatch(ids) @@ [g_store |-> kv])

NextPerItem ==
  PerItemWarmVote \/ PerItemWarmCounts \/ PerItemStart \/ BatchValidation \/ BatchTask

SpecPerItem == InitEmpty /\ [][NextPerItem]_vars

\* SpecMix: requests of every kind in every interleaving of their awaits, on a
\* fresh namespace.
MixVotes == {in \in Votes : in.token = <<"t">> /\ (in.item_id = <<"a">> \/ in.vote_type = LIKE)}
MixIdsParams == {<<"b", ",", "a">>}

\* one await of getRankings in slot p
RankingsAdvance(p) ==
  /\ procs[p].kind = "rankings"
  /\ Finish(p, RankingsStep(kv, now, procs[p]))
\* one await of getStats in slot p
StatsAdvance(p) ==
  /\ procs[p].kind = "stats"
  /\ Finish(p, StatsStep(kv, now, procs[p]))

MixVote ==
  /\ started < MixRequests
  /\ \E p \in Slots, in \in MixVotes :
       Begin(p, NewVote(in.item_id, in.token, in.vote_type, in.date) @@ Observed(in, AllIdle))
MixCounts == started < MixRequests /\ \E p \in Slots, i \in Items : StartCounts(p, i)
MixBatch == started < MixRequests /\ \E p \in Slots, ids \in MixIdsParams : StartBatch(p, ids)
MixRankings == started < MixRequests /\ \E p \in Slots : Begin(p, NewRankings)
MixStats == started < MixRequests /\ \E p \in Slots : Begin(p, NewStats)
MixVoteStep == \E p \in Slots : VoteAdvance(p)
MixRankingsStep == \E p \in Slots : RankingsAdvance(p)
MixStatsStep == \E p \in Slots : StatsAdvance(p)

NextMix ==
  \/ MixVote \/ MixCounts \/ MixBatch \/ MixRankings \/ MixStats
  \/ MixVoteStep \/ CacheReadStep \/ BatchValidation \/ BatchTask
  \/ MixRankingsStep \/ MixStatsStep

SpecMix == InitEmpty /\ [][NextMix]_vars

\* SpecFail: vote requests one at a time, await by await, on a fresh
\* namespace whose operations may fail.
\* the awaits of handleVote that are operations on the store
StoreOps == {"getVote", "getRate", "putVote", "getCount", "putCount", "putRate", "putMeta",
             "getLikes", "getDislikes"}

\* lines 65-72: env.VOTES.get or put rejects, nothing is written, and the
\* catch block of fetch answers 500
VoteThrow(p) ==
  /\ procs[p].kind = "vote"
  /\ procs[p].pc \in StoreOps
  /\ LET r == Respond(procs[p], 500, InternalError)
     IN /\ procs' = [procs EXCEPT ![p] = Idle]
        /\ resp' = r
        /\ Counted(r)
  /\ UNCHANGED <<kv, now, ticks, started, prior, localStorage, incs, pct>>

FailStart ==
  /\ AllIdle /\ started < FailRequests
  /\ \E p \in Slots, in \in Votes :
       Begin(p, NewVote(in.item_id, in.token, in.vote_type, in.date) @@ Observed(in, TRUE))
FailStep == \E p \in Slots : VoteAdvance(p)
FailThrow == \E p \in Slots : VoteThrow(p)

NextFail == FailStart \/ FailStep \/ FailThrow

SpecFail == InitEmpty /\ [][NextFail]_vars

\* SpecKeys: votes one at a time on a fresh namespace, by tokens and on items
\* whose strings may contain ':'. g_seen notes on a request the (token, item)
\* pairs whose votes were answered 200 before it.
KeyTokens == {<<"t">>, <<"t", ":", "a">>}
KeyItems == {<<"b">>, <<"a", ":", "b">>}
KeyInputs == [item_id : KeyItems, token : KeyTokens, vote_type : VoteTypes, date : DateInputs]

SeenBy(r) ==
  IF r.kind # "vote" THEN {}
  ELSE r.g_seen \cup (IF r.status = 200 THEN {<<r.token, r.item_id>>} ELSE {})

KeyVote ==
  /\ started < KeyRequests
  /\ \E in \in KeyInputs :
       /\ Answered(RunVote(kv, now, NewVote(in.item_id, in.token, in.vote_type, in.date)
                                       @@ Observed(in, TRUE) @@ [g_seen |-> SeenBy(resp)]))
       /\ UNCHANGED ghost

NextKeys == KeyVote

SpecKeys == InitEmpty /\ [][NextKeys]_vars

\* ------------------------------------------------------------------ claims
RECURSIVE Sum(_, _)
Sum(f, S) == IF S = {} THEN 0 ELSE LET x == CHOOSE y \in S : TRUE IN f[x] + Sum(f, S \ {x})

LikesOf(i) == ReadCount(kv, CountKey(LIKE, i), now)
DislikesOf(i) == ReadCount(kv, CountKey(DISLIKE, i), now)
VotedItems == {i \in Items : tally[<<LIKE, i>>] + tally[<<DISLIKE, i>>] > 0}

\* C1 (SpecSeq): a vote request for (t, i) that starts after a vote for (t, i)
\* was answered 200, and reads the vote record before the record of that vote
\* expires, is answered 409 "Already voted", whatever its vote type.
C1_DuplicateRejected ==
  (resp.kind = "vote" /\ resp.g_dupLive)
    => (resp.status = 409 /\ resp.body = [error |-> "Already voted"])

\* C1 witness: a repeat with the other vote type was answered 409
C1_Witness ==
  /\ resp.kind = "vote" /\ resp.g_dupLive /\ resp.status = 409
  /\ kv[VoteKey(resp.token, resp.item_id)].val # resp.vote_type

\* C2 (Spec): for every (t, i), at most one vote request is answered 200 and
\* at most one counter write is made for it (the clock stands still in Spec,
\* so no vote record expires).
C2_OneVotePerPair == \A pr \in Pairs : accepts[pr] <= 1 /\ incs[pr] <= 1

\* C3 (SpecSeq): with requests one at a time, the stored counters of every
\* item are the numbers of its accepted like and dislike votes, an uncached
\* read returns them with net_score and total_votes, and the answer of an
\* accepted vote reports the counters with that vote in them.
C3_CountersMatchVotes ==
  /\ \A i \in Items : LikesOf(i) = tally[<<LIKE, i>>] /\ DislikesOf(i) = tally[<<DISLIKE, i>>]
  /\ (resp.kind = "counts" /\ resp.status = 200 /\ resp.xcache = "MISS")
       => LET n == tally[<<LIKE, resp.itemId>>]
              m == tally[<<DISLIKE, resp.itemId>>]
          IN resp.body = [item_id |-> resp.itemId, likes |-> n, dislikes |-> m,
                          net_score |-> n - m, total_votes |-> n + m]
  /\ (resp.kind = "vote" /\ resp.status = 200)
       => LET n == tally[<<LIKE, resp.item_id>>]
              m == tally[<<DISLIKE, resp.item_id>>]
          IN /\ resp.body.likes = n /\ resp.body.dislikes = m
             /\ resp.body.net_score = n - m
             /\ tally[<<resp.vote_type, resp.item_id>>] >= 1

\* C3 witness: an uncached read of an item with a like and a dislike
C3_Witness ==
  /\ resp.kind = "counts" /\ resp.status = 200 /\ resp.xcache = "MISS"
  /\ resp.body.likes = 1 /\ resp.body.dislikes = 1 /\ resp.body.total_votes = 2

\* C4 (Spec): for every token and UTC date, at most 50 vote requests are
\* answered 200 on that date, in every interleaving.
C4_DailyLimit == \A k \in DOMAIN dayAccepts : dayAccepts[k] <= RateLimit

\* C5 as claimed (SpecRate): a vote request of t on a new item that starts when
\* 50 votes of t were answered 200 within the last 24 hours is answered 429.
C5_RollingWindow ==
  (resp.kind = "vote" /\ resp.status # 409 /\ resp.g_win >= RateLimit)
    => resp.status = 429

\* C5 as amended (SpecRate): a vote request of t on a new item whose rate check
\* reads the UTC date on which 50 votes of t were already accepted is answered
\* 429 "Rate limit exceeded"; an accepted vote found fewer than 50 on its date.
C5_DailyWindow ==
  /\ (resp.kind = "vote" /\ resp.status # 409 /\ resp.g_dayCount >= RateLimit)
       => (resp.status = 429 /\ resp.body = [error |-> "Rate limit exceeded"])
  /\ (resp.kind = "vote" /\ resp.status = 200) => resp.g_dayCount < RateLimit

\* C5 witness: the 50th vote of the date was accepted in this behaviour and
\* the next one, on the same date, was answered 429
C5_Witness ==
  /\ resp.kind = "vote" /\ resp.status = 429 /\ resp.g_dayCount = RateLimit
  /\ Len(acceptTimes[resp.token]) > 0

\* the ids of an ids parameter that are not blank, counted on the string: a
\* character opens an id when it is neither ',' nor ' ' and only blanks lie
\* between it and the ',' before it
OpensId(str, k) ==
  /\ str[k] \notin {",", " "}
  /\ \A j \in 1..(k - 1) : (\A m \in j..(k - 1) : str[m] # ",") => str[j] = " "
NonBlankIds(str) == Cardinality({k \in 1..Len(str) : OpensId(str, k)})

BatchOk == resp.kind = "batch" /\ resp.status = 200
BatchKeys == DOMAIN resp.body.results

\* C6 as claimed (SpecBatch): the results of an accepted batch request have
\* one entry for each requested id, and as many entries as the reported
\* count, which is the number of ids of the request.
C6_BatchCardinality ==
  BatchOk => /\ resp.body.count = NonBlankIds(resp.idsParam)
             /\ Cardinality(BatchKeys) = resp.body.count

\* C6 as amended (SpecBatch): count is the number of non-blank ids of the
\* request; results has one entry for each distinct id after trimming, which
\* is the summary of that id; so it has count entries when the ids are
\* distinct after trimming, and fewer when an id is repeated.
C6_BatchEntries ==
  BatchOk =>
    LET ids == resp.itemIds
        distinct == \A j, k \in 1..Len(ids) : j # k => Trim(ids[j]) # Trim(ids[k])
    IN /\ resp.body.count = NonBlankIds(resp.idsParam)
       /\ resp.body.count >= 1
       /\ BatchKeys = {Trim(ids[k]) : k \in 1..Len(ids)}
       /\ \A id \in BatchKeys : id # <<>> /\ resp.body.results[id].item_id = id
       /\ Cardinality(BatchKeys) <= resp.body.count
       /\ distinct <=> Cardinality(BatchKeys) = resp.body.count

\* C6 witness: a batch with a repeated id, answered with fewer entries than count
C6_Witness == BatchOk /\ Cardinality(BatchKeys) < resp.body.count

\* C7 (SpecRank): in the answer of GET /rankings every entry has a net_score
\* not smaller than the entry after it.
C7_RankingSorted ==
  resp.kind = "rankings" =>
    \A k \in 1..(Len(resp.body.items) - 1) :
      resp.body.items[k].net_score >= resp.body.items[k + 1].net_score

\* C7 witness: a ranking that differs from the key order of the store
C7_Witness ==
  /\ resp.kind = "rankings" /\ Len(resp.body.items) = 2
  /\ resp.body.items[1].item_id = <<"b">>
  /\ resp.body.items[1].net_score > resp.body.items[2].net_score

\* C8 (SpecSeq): the answer of GET /rankings lists every item with an accepted
\* vote of either type exactly once, and total_items is their number.
C8_RankingComplete ==
  resp.kind = "rankings" =>
    LET items == resp.body.items
    IN /\ {items[k].item_id : k \in 1..Len(items)} = VotedItems
       /\ Len(items) = Cardinality(VotedItems)
       /\ resp.body.total_items = Cardinality(VotedItems)

\* C9 (SpecSeq): the answer of GET /stats has the sums of the like and of the
\* dislike counters of all items, their sum, and the number of items with a vote.
C9_StatsTotals ==
  resp.kind = "stats" =>
    /\ resp.body.total_likes = Sum([i \in Items |-> LikesOf(i)], Items)
    /\ resp.body.total_dislikes = Sum([i \in Items |-> DislikesOf(i)], Items)
    /\ resp.body.total_votes = resp.body.total_likes + resp.body.total_dislikes
    /\ resp.body.total_items = Cardinality(VotedItems)

\* C10 (SpecPct): like_percentage is totalLikes * 100 / (totalLikes +
\* totalDislikes) rounded to the nearest integer, halves up, and 0 for no
\* votes; it lies in 0..100.
C10_LikePercentage ==
  (resp.kind = "stats" /\ pct.asked) =>
    LET total == pct.likes + pct.dislikes
    IN /\ resp.body.like_percentage \in 0..100
       /\ resp.body.like_percentage =
            IF total > 0 THEN (200 * pct.likes + total) \div (2 * total) ELSE 0

\* the time at which the latest accepted vote on item i wrote its record (a
\* vote that runs in one step is answered at that time); 0 when there is none
RECURSIVE LatestOf(_, _, _)
LatestOf(f, i, ts) ==
  IF ts = {} THEN 0
  ELSE LET t == CHOOSE x \in ts : TRUE
       IN Max(f[<<t, i>>], LatestOf(f, i, ts \ {t}))
LastVoteAt(i) == LatestOf(okUntil, i, Tokens) - VoteTtl

\* C11 (SpecCache): a GET /votes/i that starts more than 60 seconds after the
\* latest accepted vote on i was answered returns the counts with that vote.
C11_BoundedStaleness ==
  (/\ resp.kind = "counts" /\ resp.status = 200
   /\ LatestOf(okUntil, resp.itemId, Tokens) > 0
   /\ resp.g_start > LastVoteAt(resp.itemId) + CacheTtl)
    => /\ resp.body.likes = tally[<<LIKE, resp.itemId>>]
       /\ resp.body.dislikes = tally[<<DISLIKE, resp.itemId>>]

\* the request failed or was answered non-2xx
ClientFailed == ~resp.reply.arrived \/ ~ResponseOk(resp.reply)

\* C12 (SpecClient): getVoteCounts, getBatchVoteCounts, getRankings and
\* getStats raise no error; when the request fails or is answered non-2xx
\* they return the all-zero summary, the empty list, the all-zero stats, and
\* the batch fallback has one all-zero entry for each requested id.
C12_ClientDegrades ==
  resp.kind = "client" =>
    /\ ~resp.result.threw
    /\ ClientFailed =>
         CASE resp.op = "counts" -> resp.result.value = ZeroCounts
           [] resp.op = "rankings" -> resp.result.value = <<>>
           [] resp.op = "stats" -> resp.result.value = ZeroStats
           [] resp.op = "batch" ->
                /\ DOMAIN resp.result.value = {resp.ids[k] : k \in 1..Len(resp.ids)}
                /\ \A id \in DOMAIN resp.result.value : resp.result.value[id] = ZeroCounts

\* C12 witness: a batch read of two ids answered 500 returned two zero entries
C12_Witness ==
  /\ resp.kind = "client" /\ resp.op = "batch" /\ resp.reply.arrived
  /\ resp.reply.status = 500
  /\ Cardinality(DOMAIN resp.result.value) = 2

\* a vote body with a field missing or empty, or a vote type that is none of
\* the two
InvalidVote(r) ==
  r.item_id = <<>> \/ r.token = <<>> \/ r.vote_type = <<>> \/ r.vote_type \notin VoteTypes

\* the request in slot p took a step
Stepped(p) == procs[p].kind # "idle" /\ procs'[p].pc # procs[p].pc

C14_DuplicateFrame ==
  /\ []((resp.kind = "vote" /\ resp.g_dupLive) => resp.status = 409)
  /\ [][\A p \in Slots :
          (Stepped(p) /\ procs[p].kind = "vote" /\ procs'[p] = Idle /\ resp'.status = 409)
            => (procs[p].pc = "getVote" /\ kv' = kv)]_vars

\* C14 witness: a token with 50 votes today voted again on an item it had
\* voted on and was answered 409
C14_Witness ==
  /\ resp.kind = "vote" /\ resp.status = 409 /\ resp.g_dupLive
  /\ ReadCount(kv, RateKey(resp.token, Today(now)), now) = RateLimit

\* C15 (SpecRate): a vote answered 429 leaves the store as it was, so there
\* is no vote record for its token and item; and the next vote of the token
\* on that item, made when its counter of the day is below 50, is accepted.
C15_RateLimitedFrame ==
  /\ []((resp.kind = "vote" /\ resp.status = 429)
          => ~Get(kv, VoteKey(resp.token, resp.item_id), now).found)
  /\ [][(started' # started /\ resp'.kind = "vote" /\ resp'.status = 429) => kv' = kv]_vars
  /\ [][(/\ resp.kind = "vote" /\ resp.status = 429
         /\ started' # started /\ resp'.kind = "vote"
         /\ resp'.token = resp.token /\ resp'.item_id = resp.item_id
         /\ ReadCount(kv, RateKey(resp.token, Today(now)), now) < RateLimit)
          => resp'.status = 200]_vars

\* C15 witness: a vote was answered 429 and the store holds the rate counter
\* at 50 and no vote record
C15_Witness ==
  /\ resp.kind = "vote" /\ resp.status = 429
  /\ ReadCount(kv, RateKey(resp.token, Today(now)), now) = RateLimit
  /\ ~Get(kv, VoteKey(resp.token, resp.item_id), now).found

\* the value of an integer counter stored under key k
StoredCount(k) == ParseInt(kv[k].val)

\* C16 (SpecRace): in every state of every interleaving of vote requests, every
\* stored rate counter is the decimal form of an integer from 1 to 50.
C16_RateCounterBound ==
  \A k \in DOMAIN kv :
    StartsWith(k, RATE_PREFIX)
      => (StoredCount(k) \in 1..RateLimit /\ kv[k].val = DecStr(StoredCount(k)))

\* C16 witness: two overlapping votes took a token past the limit, to 51
\* accepted votes on the date, and its rate counter holds 50
C16_Witness ==
  \E t \in Tokens :
    /\ DayCount(t, Today(now)) = RateLimit + 1
    /\ RateKey(t, Today(now)) \in DOMAIN kv
    /\ StoredCount(RateKey(t, Today(now))) = RateLimit

\* C18 (Spec): a stored vote record keeps its vote type in every step (the
\* clock stands still in Spec, so no record expires).
C18_VoteImmutable ==
  [][\A pr \in Pairs :
       LET k == VoteKey(pr[1], pr[2])
       IN (k \in DOMAIN kv /\ k \in DOMAIN kv') => kv'[k].val = kv[k].val]_vars

\* the vote requests in flight that passed the duplicate check and the rate
\* check, by vote type and item
Admitted(v, i) ==
  Cardinality({p \in Slots :
                 /\ procs[p].kind = "vote"
                 /\ procs[p].pc \notin {"validate", "getVote", "getRate"}
                 /\ procs[p].vote_type = v /\ procs[p].item_id = i})

\* C19 (SpecRace): a stored counter never exceeds the number of votes of its type
\* accepted for its item (answered 200, or past both checks and in flight);
\* and when two votes of a type on an item have been accepted and nothing is
\* in flight, the counter, 0 before them, is 2 or 1.
C19_UnderCountOnly ==
  \A v \in VoteTypes, i \in Items :
    LET c == ReadCount(kv, CountKey(v, i), now)
    IN /\ c <= tally[<<v, i>>] + Admitted(v, i)
       /\ (AllIdle /\ tally[<<v, i>>] = 2) => c \in {1, 2}

\* C19 witness: two overlapping likes of item a were accepted and the counter
\* holds 1
C19_Witness ==
  /\ AllIdle /\ tally[<<LIKE, <<"a">>>>] = 2
  /\ ReadCount(kv, CountKey(LIKE, <<"a">>), now) = 1

\* C17 (SpecCount): every stored like and dislike counter is a non-negative
\* integer and no step lowers it, in every interleaving of vote requests on
\* an item.
C17_CountersMonotone ==
  [][\A v \in VoteTypes, i \in Items :
       /\ ReadCount(kv', CountKey(v, i), now') >= 0
       /\ ReadCount(kv', CountKey(v, i), now') >= ReadCount(kv, CountKey(v, i), now)]_vars

SingleRead(s, id) == RunCounts(s, now, NewCounts(id))

\* C21 as claimed (SpecPerItem): the answer of a batch request has, for every
\* id of the request, an entry under that id which is the answer of GET
\* /votes/id from the store the batch request found.
C21_BatchEqualsSingle ==
  (BatchOk /\ "g_store" \in DOMAIN resp) =>
    \A k \in 1..Len(resp.itemIds) :
      LET id == resp.itemIds[k]
      IN /\ id \in BatchKeys
         /\ resp.body.results[id] = SingleRead(resp.g_store, id).r.body

\* C21 as amended (SpecPerItem): for every id of the request, the entry under
\* the trimmed id is the answer of GET /votes/(trimmed id) from the store the
\* batch request found, the cache entry of that id is the one the single read
\* leaves, and cache_hits + cache_misses = count.
C21_BatchEqualsTrimmedSingle ==
  (BatchOk /\ "g_store" \in DOMAIN resp) =>
    /\ \A k \in 1..Len(resp.itemIds) :
         LET id == Trim(resp.itemIds[k])
             single == SingleRead(resp.g_store, id)
         IN /\ id \in BatchKeys
            /\ single.r.status = 200
            /\ resp.body.results[id] = single.r.body
            /\ CacheKey(id) \in DOMAIN kv
            /\ kv[CacheKey(id)] = single.kv[CacheKey(id)]
    /\ resp.body.cache_hits + resp.body.cache_misses = resp.body.count
    /\ resp.body.count = Len(resp.itemIds)

\* C21 witness: a batch of two ids, one answered from the cache with the
\* counts from before a vote and one computed from the counters
C21_Witness ==
  /\ BatchOk /\ "g_store" \in DOMAIN resp
  /\ resp.body.cache_hits = 1 /\ resp.body.cache_misses = 1
  /\ Cardinality(BatchKeys) = 2
  /\ \E id \in BatchKeys : resp.body.results[id].likes < LikesOf(id)

\* the derived fields of a summary follow from its two counters
Consistent(s) ==
  /\ s.likes >= 0 /\ s.dislikes >= 0
  /\ s.net_score = s.likes - s.dislikes
  /\ s.total_votes = s.likes + s.dislikes

\* the key families of the worker
KeyFamilies == {VOTE_PREFIX, LIKE_PREFIX, DISLIKE \o COLON, RATE_PREFIX, META_PREFIX, CACHE_PREFIX}

\* C22 (SpecMix): in every state of every interleaving of requests, every
\* cache entry, every answer of a single read, every entry of a batch answer
\* and every entry of a ranking has likes >= 0, dislikes >= 0, net_score =
\* likes - dislikes and total_votes = likes + dislikes; the answer of an
\* accepted vote has net_score = likes - dislikes; and the store holds
\* net_score and total_votes in cache entries only: every other key is a vote
\* record, a rate counter, a metadata record, or a like or dislike counter
\* that holds a decimal integer.
C22_DerivedFields ==
  /\ \A k \in DOMAIN kv :
       /\ \E f \in KeyFamilies : StartsWith(k, f)
       /\ StartsWith(k, CACHE_PREFIX) => Consistent(kv[k].val)
       /\ (StartsWith(k, LIKE_PREFIX) \/ StartsWith(k, DISLIKE \o COLON))
            => (StoredCount(k) >= 1 /\ kv[k].val = DecStr(StoredCount(k)))
  /\ (resp.kind = "counts" /\ resp.status = 200) => Consistent(resp.body)
  /\ (resp.kind = "batch" /\ resp.status = 200)
       => \A id \in DOMAIN resp.body.results : Consistent(resp.body.results[id])
  /\ resp.kind = "rankings"
       => \A k \in 1..Len(resp.body.items) : Consistent(resp.body.items[k])
  /\ (resp.kind = "vote" /\ resp.status = 200)
       => /\ resp.body.likes >= 0 /\ resp.body.dislikes >= 0
          /\ resp.body.net_score = resp.body.likes - resp.body.dislikes

\* C22 witness: a single read that overlapped a dislike was answered with net
\* score -1 and the cache holds that summary
C22_Witness ==
  /\ resp.kind = "counts" /\ resp.status = 200 /\ resp.xcache = "MISS"
  /\ resp.body.net_score = -1 /\ resp.body.total_votes = 1
  /\ CacheKey(resp.itemId) \in DOMAIN kv
  /\ kv[CacheKey(resp.itemId)].val = resp.body

\* C23 (SpecFail): after a vote request is answered 500, its vote record is
\* not in the store unless a counter write was made for its token and item;
\* and a vote request is answered 409 only for a token and item for which a
\* counter write was made.
C23_FailedVoteAtomic ==
  /\ (resp.kind = "vote" /\ resp.status = 500)
       => ~(/\ Get(kv, VoteKey(resp.token, resp.item_id), now).found
            /\ incs[<<resp.token, resp.item_id>>] = 0)
  /\ (resp.kind = "vote" /\ resp.status = 409)
       => incs[<<resp.token, resp.item_id>>] >= 1

ReadKinds == {"counts", "batch", "rankings", "stats"}

\* the cache keys of the ids a read request was asked about
AskedCacheKeys(r) ==
  CASE r.kind = "counts" -> {CacheKey(r.itemId)}
    [] r.kind = "batch" ->
         LET ids == ParseIds(r.idsParam) IN {CacheKey(Trim(ids[k])) : k \in 1..Len(ids)}
    [] OTHER -> {}

\* C24 (SpecMix): a step of GET /votes/:id, GET /votes/batch, GET /rankings or
\* GET /stats, in every interleaving with votes and other reads, deletes no
\* key, and creates or changes only cache keys of the ids the request was
\* asked about (no vote record, counter, rate counter or metadata record);
\* a step of rankings or stats leaves the store as it was.
C24_ReadsFrame ==
  [][\A p \in Slots :
       (procs[p].kind \in ReadKinds /\ procs'[p] # procs[p])
         => /\ DOMAIN kv \subseteq DOMAIN kv'
            /\ \A k \in DOMAIN kv' :
                 (k \notin DOMAIN kv \/ kv'[k] # kv[k])
                   => (k \in AskedCacheKeys(procs[p]) /\ StartsWith(k, CACHE_PREFIX))
            /\ procs[p].kind \in {"rankings", "stats"} => kv' = kv]_vars

\* C24 witness: a batch read that overlapped a vote missed the cache and wrote
\* cache entries next to the vote record and the counter
C24_Witness ==
  /\ BatchOk /\ resp.body.cache_misses >= 1
  /\ \E i \in Items :
       /\ VoteKey(<<"t">>, i) \in DOMAIN kv
       /\ CacheKey(i) \in DOMAIN kv
       /\ kv[CacheKey(i)].val.total_votes = 1

\* the keys a vote request may write
VoteWrites(r) ==
  {VoteKey(r.token, r.item_id), CountKey(r.vote_type, r.item_id),
   RateKey(r.token, Today(now)), MetaKey(r.item_id, now)}

\* a step of a vote request changes only the keys of the request, and none
\* is deleted
VoteFrame(r) ==
  /\ DOMAIN kv \subseteq DOMAIN kv'
  /\ \A k \in DOMAIN kv' : (k \notin DOMAIN kv \/ kv'[k] # kv[k]) => k \in VoteWrites(r)

\* the counter write and the rate counter write of a request that no other
\* request overlapped add exactly 1
VoteAddsOne(r) ==
  /\ (r.pc = "putCount" /\ r.g_alone)
       => ReadCount(kv', CountKey(r.vote_type, r.item_id), now)
            = ReadCount(kv, CountKey(r.vote_type, r.item_id), now) + 1
  /\ (r.pc = "putRate" /\ r.g_alone)
       => ReadCount(kv', RateKey(r.token, Today(now)), now)
            = ReadCount(kv, RateKey(r.token, Today(now)), now) + 1

\* C25 (Spec): every step of a vote request of token t on item i with type v,
\* in every interleaving, changes only vote:t:i, the counter v:i, the rate
\* counter of t for today and the metadata key, and deletes nothing; the
\* counter and the rate counter grow by exactly 1 when no other request
\* overlaps; and the metadata key it writes is a new key.
C25_AcceptedVoteFrame ==
  [][\A p \in Slots :
       (Stepped(p) /\ procs[p].kind = "vote")
         => /\ VoteFrame(procs[p])
            /\ VoteAddsOne(procs[p])
            /\ procs[p].pc = "putMeta"
                 => MetaKey(procs[p].item_id, now) \notin DOMAIN kv]_vars

\* the call threw an error with the message
ThrewMessage(result, message) == result.threw /\ result.value = message

\* a call of voteForItem was made in this step
VoteCalled == started' # started /\ resp'.kind = "voteForItem"

\* the mark is stored only by a call that was sent and answered 2xx, and is
\* the vote type under vote:{token}:{itemId}; a call whose request failed or
\* was answered non-2xx leaves localStorage as it was and throws
MarkOnlyOnAcceptance ==
  /\ localStorage' # localStorage
       => /\ resp'.sent /\ resp'.reply.arrived /\ ResponseOk(resp'.reply)
          /\ ~resp'.result.threw
          /\ LocalKey(resp'.token, resp'.itemId) \notin DOMAIN localStorage
          /\ LocalKey(resp'.token, resp'.itemId) \in DOMAIN localStorage'
          /\ localStorage'[LocalKey(resp'.token, resp'.itemId)] = resp'.voteType
          /\ \A k \in DOMAIN localStorage : localStorage'[k] = localStorage[k]
  /\ (~resp'.sent \/ ~resp'.reply.arrived \/ ~ResponseOk(resp'.reply))
       => (localStorage' = localStorage /\ resp'.result.threw)

C27_KeysCollisionFree ==
  /\ (resp.kind = "vote" /\ resp.status = 409)
       => <<resp.token, resp.item_id>> \in resp.g_seen
  /\ \A k \in DOMAIN kv : Cardinality({f \in KeyFamilies : StartsWith(k, f)}) = 1

====
